---- MODULE Spec2Model ----
(***************************************************************************)
(* Swidget config flow (homeassistant/components/swidget/config_flow.py). *)
(*                                                                         *)
(* The model has two parts that share the host platform's registry:       *)
(*   - the discovery poller set up by async_setup (setup pass, the        *)
(*     startup-complete listener, the interval timer);                    *)
(*   - a pool of ConfigFlow instances, each walking the steps             *)
(*     integration_discovery / discovery_confirm / user / pick_device.    *)
(*                                                                         *)
(* Scheduling is the event loop's: a step runs without interruption up to *)
(* an await that performs network I/O.  The awaits of                      *)
(* async_set_unique_id (lines 106, 115) do no I/O and never yield, so the *)
(* discovery entry step is one action.  The await of                      *)
(* async_discover_devices inside async_step_pick_device (line 182) does   *)
(* yield, after configured_devices was computed (lines 179-181): that     *)
(* step is split there.  After the await of validate_input the steps read *)
(* no shared state, so a submission is one action.                        *)
(***************************************************************************)
EXTENDS Naturals, Sequences, FiniteSets, TLC

VARIABLES
    macStyle,   \* how the discovery library writes a hardware address
    entries,    \* the host platform's config entries (ConfigRecords)
    flows,      \* the ConfigFlow instances, by flow id
    poller,     \* async_setup's position: "setup", "ready", "setup_failed"
    started,    \* the EVENT_HOMEASSISTANT_STARTED listener has fired
    lastPass    \* what the poller's most recent discovery pass did

vars == <<macStyle, entries, flows, poller, started, lastPass>>

----------------------------------------------------------------------------
(* Bounds and the small input sets *)

\* flow instances the flow manager creates
MaxFlows == 2
FlowIds == 1..MaxFlows

Hosts == {"10.0.0.5", "10.0.0.6"}
BlankHost == ""
NoHost == "<none>"

MacIds == {"aabbccddeeff", "112233445566"}
MacStyles == {"lower", "upper"}
NoMac == [id |-> "<none>", style |-> "<none>"]

\* a key of user_input that the submitted form does not carry
NoKey == "<missing>"
Passwords == {"p"}

\* the three options of the pick_device selector
TokenNames == {"x-secret-key", "x-site-key", "x-user-key"}
\* the credential names the modelled submissions use
TokenInputs == {"x-secret-key"}

\* what the device does when SwidgetDevice.update() is awaited
DeviceBehaviours == {"ok", "SwidgetException", "Exception"}

----------------------------------------------------------------------------
(* Hardware addresses and discovery results *)

\* a hardware address as the discovery library reports it
Mac(id) == [id |-> id, style |-> macStyle]

\* dr.format_mac: the canonical form is lower case with colons
format_mac(mac) == [id |-> mac.id, style |-> "lower"]

EmptyMap == [k \in {} |-> NoHost]

\* dict[str, SwidgetDiscoveredDevice]: address -> host of the device
CandidateMaps ==
    UNION {[S -> Hosts] : S \in SUBSET {Mac(id) : id \in MacIds}}

\* discover_devices() returns a map or raises
DiscoveryResults ==
    {[ok |-> FALSE, map |-> EmptyMap]} \cup
    {[ok |-> TRUE, map |-> m] : m \in CandidateMaps}

\* the friendly name the device at a host reports after update()
friendly_name(host) == IF host = "10.0.0.5" THEN "Plug" ELSE "Lamp"

----------------------------------------------------------------------------
(* validate_input *)

\* lines 54-67.  data["token_name"] and data["password"] are subscripted
\* inside the try block: a missing key raises KeyError, which is not a
\* SwidgetException and leaves validate_input as it is, before any device
\* object exists.
validate_input(data, behaviour) ==
    IF data.token_name = NoKey \/ data.password = NoKey
    THEN [kind |-> "Exception", title |-> "", connected |-> FALSE]
    ELSE CASE behaviour = "ok" ->
                [kind |-> "ok", title |-> friendly_name(data.host),
                 connected |-> TRUE]
           [] behaviour = "SwidgetException" ->
                [kind |-> "CannotConnect", title |-> "", connected |-> TRUE]
           [] OTHER ->
                [kind |-> "Exception", title |-> "", connected |-> TRUE]

----------------------------------------------------------------------------
(* Flow instances and the host platform's registry *)

NoDevice == [mac |-> NoMac, host |-> NoHost]

\* one call of a flow step: the step, the host and hardware address it was
\* about, what the device did, and how validate_input ended
Call(step, host, mac, behaviour, kind, connected) ==
    [step |-> step, host |-> host, mac |-> mac, behaviour |-> behaviour,
     kind |-> kind, connected |-> connected]
NoCall == Call("none", NoHost, NoMac, "none", "none", FALSE)

\* ConfigFlow.__init__ (lines 89-92) and the flow's context
NewFlow ==
    [state      |-> "idle",      \* idle, user, pick_wait, pick_device,
                                 \* discovery_confirm, created, aborted
     reason     |-> "",          \* abort reason
     errors     |-> "none",      \* errors["base"] of the displayed form
     raised     |-> "none",      \* exception the last step call let escape
     unique_id  |-> NoMac,       \* context["unique_id"]
     ctx_host   |-> NoHost,      \* context[CONF_HOST]
     device     |-> NoDevice,    \* self._discovered_device
     devices    |-> EmptyMap,    \* self._discovered_devices
     configured |-> {},          \* configured_devices while discovery runs
     offered    |-> {},          \* keys of devices_name in the shown form
     last       |-> NoCall]      \* the last submission and its validation

\* a flow the flow manager lists as in progress
ActiveStates == {"user", "pick_wait", "pick_device", "discovery_confirm"}

\* self._async_in_progress(): the other flows of this handler
async_in_progress(f) ==
    {g \in FlowIds \ {f} : flows[g].state \in ActiveStates}

\* entry.unique_id for entry in self._async_current_entries()
current_unique_ids == {entries[i].unique_id : i \in DOMAIN entries}

\* _abort_if_unique_id_configured(updates={CONF_HOST: host}): the entry
\* with this unique id gets the new host
update_entries(uid, host) ==
    [i \in DOMAIN entries |->
        IF entries[i].unique_id = uid
        THEN [entries[i] EXCEPT !.host = host]
        ELSE entries[i]]

\* _async_abort_entries_match({CONF_HOST: host})
async_abort_entries_match(host) == \E i \in DOMAIN entries : entries[i].host = host

\* async_create_entry(title=..., data=user_input) by flow f
ConfigRecord(f, title, data) ==
    [title      |-> title,
     unique_id  |-> flows[f].unique_id,
     host       |-> data.host,
     device     |-> data.device,
     token_name |-> data.token_name,
     password   |-> data.password]

\* a flow that ended: its attempt state is dropped
Ended(fl, state, reason) ==
    [fl EXCEPT !.state = state, !.reason = reason, !.errors = "none",
               !.raised = "none", !.unique_id = NoMac, !.ctx_host = NoHost,
               !.device = NoDevice, !.devices = EmptyMap,
               !.configured = {}, !.offered = {}]

----------------------------------------------------------------------------
(* Discovery poller: async_setup *)

\* mutant: the trigger is called for every map, empty or not
should_trigger_Always(discovered) == TRUE

\* `if discovered := await async_discover_devices(hass)` (lines 74, 78)
should_trigger(discovered) == DOMAIN discovered # {}

NoPass == [src |-> "none", ok |-> TRUE, map |-> EmptyMap, trigs |-> 0,
           arg |-> EmptyMap]

\* one discovery pass of the poller (lines 74-75 and 77-79): trigs counts
\* the calls of async_trigger_discovery, arg is the map handed to it
async_discovery(src, res) ==
    IF res.ok /\ should_trigger(res.map)
    THEN [src |-> src, ok |-> TRUE, map |-> res.map, trigs |-> 1,
          arg |-> res.map]
    ELSE [src |-> src, ok |-> res.ok, map |-> res.map, trigs |-> 0,
          arg |-> EmptyMap]

\* async_setup's own pass; an exception of the discovery call leaves
\* async_setup before the listeners are registered
SetupPass(res) ==
    /\ poller = "setup"
    /\ lastPass' = async_discovery("setup", res)
    /\ poller' = IF res.ok THEN "ready" ELSE "setup_failed"
    /\ UNCHANGED <<macStyle, entries, flows, started>>

\* hass.bus.async_listen_once(EVENT_HOMEASSISTANT_STARTED, ...)
StartedSignal(res) ==
    /\ poller = "ready"
    /\ ~started
    /\ started' = TRUE
    /\ lastPass' = async_discovery("started", res)
    /\ UNCHANGED <<macStyle, entries, flows, poller>>

\* async_track_time_interval(hass, _async_discovery, DISCOVERY_INTERVAL)
IntervalTick(res) ==
    /\ poller = "ready"
    /\ lastPass' = async_discovery("interval", res)
    /\ UNCHANGED <<macStyle, entries, flows, poller, started>>

----------------------------------------------------------------------------
(* Discovery entry: async_step_integration_discovery *)

\* how the handler ends: the abort reason, if any, and the host that
\* _abort_if_unique_id_configured wrote into the matching entry, if any
Abort(reason) == [abort |-> TRUE, reason |-> reason, updates |-> NoHost]
AbortUpdated(host) ==
    [abort |-> TRUE, reason |-> "already_configured", updates |-> host]
Proceed == [abort |-> FALSE, reason |-> "", updates |-> NoHost]

\* mutant: line 107 passes no updates
async_handle_discovery_NoUpdates(f, host, mac) ==
    IF \E g \in async_in_progress(f) : flows[g].unique_id = format_mac(mac)
    THEN Abort("already_in_progress")
    ELSE IF format_mac(mac) \in current_unique_ids
    THEN Abort("already_configured")
    ELSE IF async_abort_entries_match(host)
    THEN Abort("already_configured")
    ELSE IF \E g \in async_in_progress(f) : flows[g].ctx_host = host
    THEN Abort("already_in_progress")
    ELSE Proceed

\* mutant: line 108 (_async_abort_entries_match) is missing
async_handle_discovery_NoEntriesMatch(f, host, mac) ==
    IF \E g \in async_in_progress(f) : flows[g].unique_id = format_mac(mac)
    THEN Abort("already_in_progress")
    ELSE IF format_mac(mac) \in current_unique_ids
    THEN AbortUpdated(host)
    ELSE IF \E g \in async_in_progress(f) : flows[g].ctx_host = host
    THEN Abort("already_in_progress")
    ELSE Proceed

\* mutant: the loop of lines 110-112 also meets the flow itself, whose
\* context holds the host since line 109
async_handle_discovery_SelfInProgress(f, host, mac) ==
    IF \E g \in async_in_progress(f) : flows[g].unique_id = format_mac(mac)
    THEN Abort("already_in_progress")
    ELSE IF format_mac(mac) \in current_unique_ids
    THEN AbortUpdated(host)
    ELSE IF async_abort_entries_match(host)
    THEN Abort("already_configured")
    ELSE Abort("already_in_progress")

\* mutant: line 107 (_abort_if_unique_id_configured) is missing
async_handle_discovery_NoConfiguredCheck(f, host, mac) ==
    IF \E g \in async_in_progress(f) : flows[g].unique_id = format_mac(mac)
    THEN Abort("already_in_progress")
    ELSE IF async_abort_entries_match(host)
    THEN Abort("already_configured")
    ELSE IF \E g \in async_in_progress(f) : flows[g].ctx_host = host
    THEN Abort("already_in_progress")
    ELSE Proceed

\* mutant: the loop over the flows in progress (lines 110-112) is missing
async_handle_discovery_NoHostLoop(f, host, mac) ==
    IF \E g \in async_in_progress(f) : flows[g].unique_id = format_mac(mac)
    THEN Abort("already_in_progress")
    ELSE IF format_mac(mac) \in current_unique_ids
    THEN AbortUpdated(host)
    ELSE IF async_abort_entries_match(host)
    THEN Abort("already_configured")
    ELSE Proceed

\* mutant: line 114 is missing
discovered_device_NotStored(host, mac) == NoDevice

\* self._discovered_device = SwidgetDiscoveredDevice(mac, host) (line 114)
discovered_device(host, mac) == [mac |-> mac, host |-> host]

\* _async_handle_discovery (lines 104-116), up to the call of
\* async_step_discovery_confirm: which abort ends the step, if any.
\* async_set_unique_id raises already_in_progress when another flow holds
\* the unique id (raise_on_progress, lines 106 and 115).
async_handle_discovery(f, host, mac) ==
    IF \E g \in async_in_progress(f) : flows[g].unique_id = format_mac(mac)
    THEN Abort("already_in_progress")
    ELSE IF format_mac(mac) \in current_unique_ids
    THEN AbortUpdated(host)
    ELSE IF async_abort_entries_match(host)
    THEN Abort("already_configured")
    ELSE IF \E g \in async_in_progress(f) : flows[g].ctx_host = host
    THEN Abort("already_in_progress")
    ELSE Proceed

\* async_step_integration_discovery (lines 96-102) and the handler up to
\* the form of async_step_discovery_confirm(None) (lines 128-143)
DiscoveryInit(f, host, mac) ==
    /\ flows[f].state = "idle"
    /\ LET uid  == format_mac(mac)
           out  == async_handle_discovery(f, host, mac)
           call == Call("integration_discovery", host, mac, "none", "none",
                        FALSE)
       IN /\ flows' = [flows EXCEPT ![f] =
                IF out.abort
                THEN Ended([NewFlow EXCEPT !.last = call], "aborted",
                           out.reason)
                ELSE [NewFlow EXCEPT !.state = "discovery_confirm",
                               !.unique_id = uid,
                               !.ctx_host = host,
                               !.device = discovered_device(host, mac),
                               !.last = call]]
          /\ entries' = IF out.updates # NoHost
                        THEN update_entries(uid, out.updates)
                        ELSE entries
    /\ UNCHANGED <<macStyle, poller, started, lastPass>>

\* the part of a step after validate_input: create the entry, or let the
\* exception leave the step (discovery_confirm lines 124-126, pick_device
\* lines 175-177: no try block)
SubmitUnguarded(f, step, data, behaviour) ==
    LET r    == validate_input(data, behaviour)
        call == Call(step, data.host, data.device, behaviour, r.kind,
                     r.connected)
    IN IF r.kind = "ok"
       THEN /\ entries' = Append(entries, ConfigRecord(f, r.title, data))
            /\ flows' = [flows EXCEPT ![f] =
                    Ended([@ EXCEPT !.last = call], "created", "")]
       ELSE /\ entries' = entries
            /\ flows' = [flows EXCEPT ![f] =
                    [@ EXCEPT !.raised = r.kind, !.last = call]]

\* an exception raised before validate_input leaves the step
StepRaises(f, step, exc) ==
    /\ entries' = entries
    /\ flows' = [flows EXCEPT ![f] =
            [@ EXCEPT !.raised = exc,
                      !.last = Call(step, NoHost, NoMac, "none", "none",
                                    FALSE)]]

\* mutant: line 124 is missing, the host is what the form carries
confirm_input_FormHost(device, token_name, password) ==
    [host |-> BlankHost, device |-> NoMac,
     token_name |-> token_name, password |-> password]

\* user_input[CONF_HOST] = self._discovered_device.host (line 124); the
\* form of lines 128-143 carries token_name and password only
confirm_input(device, token_name, password) ==
    [host |-> device.host, device |-> NoMac,
     token_name |-> token_name, password |-> password]

\* async_step_discovery_confirm with user_input (lines 122-126)
ConfirmSubmit(f, token_name, password, behaviour) ==
    /\ flows[f].state = "discovery_confirm"
    /\ IF flows[f].device = NoDevice
       THEN StepRaises(f, "discovery_confirm", "AssertionError")
       ELSE SubmitUnguarded(f, "discovery_confirm",
                confirm_input(flows[f].device, token_name, password),
                behaviour)
    /\ UNCHANGED <<macStyle, poller, started, lastPass>>

----------------------------------------------------------------------------
(* Manual entry: async_step_user and async_step_pick_device *)

\* the flow manager calls async_step_user(None): the form (lines 166-168)
UserInit(f) ==
    /\ flows[f].state = "idle"
    /\ flows' = [flows EXCEPT ![f] = [NewFlow EXCEPT !.state = "user"]]
    /\ UNCHANGED <<macStyle, entries, poller, started, lastPass>>

\* mutant: the blank-host test is missing
user_route_AlwaysValidate(host) == "validate"

\* `if not (user_input[CONF_HOST])` (lines 151-152)
user_route(host) == IF host = BlankHost THEN "pick_device" ELSE "validate"

\* the except clauses of async_step_user (lines 156-162)
user_errors(kind) ==
    CASE kind = "CannotConnect" -> "cannot_connect"
      [] kind = "InvalidAuth" -> "invalid_auth"
      [] OTHER -> "unknown"

\* async_step_user with the submitted form (lines 150-168); the form of
\* STEP_USER_DATA_SCHEMA carries host and, optionally, password.  A blank
\* host enters async_step_pick_device, which computes configured_devices
\* (lines 179-181) and awaits the discovery call (line 182).
UserSubmit(f, host, password, behaviour) ==
    /\ flows[f].state = "user"
    /\ IF user_route(host) = "pick_device"
       THEN /\ flows' = [flows EXCEPT ![f] =
                    [@ EXCEPT !.state = "pick_wait",
                              !.errors = "none", !.raised = "none",
                              !.configured = current_unique_ids,
                              !.last = Call("user", host, NoMac, "none",
                                            "none", FALSE)]]
            /\ entries' = entries
       ELSE LET data == [host |-> host, device |-> NoMac,
                         token_name |-> NoKey, password |-> password]
                r    == validate_input(data, behaviour)
                call == Call("user", host, NoMac, behaviour, r.kind,
                             r.connected)
            IN IF r.kind = "ok"
               THEN /\ entries' =
                        Append(entries, ConfigRecord(f, r.title, data))
                    /\ flows' = [flows EXCEPT ![f] =
                            Ended([@ EXCEPT !.last = call], "created", "")]
               ELSE /\ entries' = entries
                    /\ flows' = [flows EXCEPT ![f] =
                            [@ EXCEPT !.errors = user_errors(r.kind),
                                      !.raised = "none", !.last = call]]
    /\ UNCHANGED <<macStyle, poller, started, lastPass>>

\* devices_name (lines 184-188): the keys not in configured_devices
devices_name(devices, configured) ==
    {mac \in DOMAIN devices : mac \notin configured}

\* async_step_pick_device(None) after the discovery call returned or
\* raised (lines 182-213).  async_discover_devices (lines 46-51) has no try
\* block: what discover_devices() raises leaves the step, and the flow
\* stays at the user form.
PickDiscovered(f, res) ==
    /\ flows[f].state = "pick_wait"
    /\ LET fl    == flows[f]
           names == devices_name(res.map, fl.configured)
       IN flows' = [flows EXCEPT ![f] =
            IF ~res.ok
            THEN [fl EXCEPT !.state = "user", !.raised = "DiscoveryError",
                            !.configured = {}]
            ELSE IF names = {}
            THEN [Ended(fl, "aborted", "no_devices_found")
                    EXCEPT !.devices = res.map]
            ELSE [fl EXCEPT !.state = "pick_device",
                            !.devices = res.map,
                            !.offered = names,
                            !.configured = {}]]
    /\ UNCHANGED <<macStyle, entries, poller, started, lastPass>>

\* mutant: the host of some discovered device, not of the picked one
picked_host_Any(devices, device) ==
    devices[CHOOSE k \in DOMAIN devices : k # device \/ DOMAIN devices = {k}]

\* self._discovered_devices[user_input["device"]].host (lines 175-176)
picked_host(devices, device) == devices[device]

\* async_step_pick_device with user_input (lines 174-177); the form's
\* vol.In(devices_name) admits the offered keys only
PickSubmit(f, device, token_name, password, behaviour) ==
    /\ flows[f].state = "pick_device"
    /\ device \in flows[f].offered
    /\ IF device \notin DOMAIN flows[f].devices
       THEN StepRaises(f, "pick_device", "KeyError")
       ELSE SubmitUnguarded(f, "pick_device",
                [host |-> picked_host(flows[f].devices, device),
                 device |-> device,
                 token_name |-> token_name, password |-> password],
                behaviour)
    /\ UNCHANGED <<macStyle, poller, started, lastPass>>

----------------------------------------------------------------------------
(* Specification *)

\* The registry when the integration is set up: empty, or holding the
\* entry an earlier discovery flow created for the first device (the record
\* DiscoveryInit and ConfirmSubmit build).
InitialEntries ==
    {<< >>,
     <<[title      |-> friendly_name("10.0.0.5"),
        unique_id  |-> [id |-> "aabbccddeeff", style |-> "lower"],
        host       |-> "10.0.0.5",
        device     |-> NoMac,
        token_name |-> "x-secret-key",
        password   |-> "p"]>>}

Init ==
    /\ macStyle \in MacStyles
    /\ entries \in InitialEntries
    /\ flows = [f \in FlowIds |-> NewFlow]
    /\ poller = "setup"
    /\ started = FALSE
    /\ lastPass = NoPass

\* the flows, started by the user or by the host platform for any candidate
\* a discovery pass can hand to it
Next ==
    \/ \E f \in FlowIds, h \in Hosts, id \in MacIds :
            DiscoveryInit(f, h, Mac(id))
    \/ \E f \in FlowIds, t \in TokenInputs, p \in Passwords,
          b \in DeviceBehaviours : ConfirmSubmit(f, t, p, b)
    \/ \E f \in FlowIds : UserInit(f)
    \/ \E f \in FlowIds, h \in Hosts \cup {BlankHost},
          p \in Passwords \cup {NoKey}, b \in DeviceBehaviours :
            UserSubmit(f, h, p, b)
    \/ \E f \in FlowIds, res \in DiscoveryResults : PickDiscovered(f, res)
    \/ \E f \in FlowIds, id \in MacIds, t \in TokenInputs, p \in Passwords,
          b \in DeviceBehaviours : PickSubmit(f, Mac(id), t, p, b)

Spec == Init /\ [][Next]_vars

\* async_trigger_discovery: the host platform starts a flow for a candidate
\* of the map the poller handed over
TriggeredDiscovery(f, mac) ==
    /\ lastPass.trigs > 0
    /\ mac \in DOMAIN lastPass.arg
    /\ DiscoveryInit(f, lastPass.arg[mac], mac)

\* the poller with the discovery flows its passes start
PollerNext ==
    \/ \E res \in DiscoveryResults : SetupPass(res)
    \/ \E res \in DiscoveryResults : StartedSignal(res)
    \/ \E res \in DiscoveryResults : IntervalTick(res)
    \/ \E f \in FlowIds, id \in MacIds : TriggeredDiscovery(f, Mac(id))
    \/ \E f \in FlowIds, t \in TokenInputs, p \in Passwords,
          b \in DeviceBehaviours : ConfirmSubmit(f, t, p, b)

PollerSpec == Init /\ [][PollerNext]_vars

----------------------------------------------------------------------------
(* Claims *)

\* the hardware identifier a record refers to: its unique id, or else the
\* address of the device picked for it (data["device"])
hardware_id(e) ==
    IF e.unique_id # NoMac THEN e.unique_id
    ELSE IF e.device # NoMac THEN format_mac(e.device)
    ELSE NoMac

\* some record refers to the device with this address
is_configured(mac) ==
    \E i \in DOMAIN entries : hardware_id(entries[i]) = format_mac(mac)

ManualSteps == {"user", "pick_device"}

\* C1: no two config records refer to the same device hardware identifier.
C1_UniqueHardwareIdentifier ==
    \A i, j \in DOMAIN entries :
        (i # j /\ hardware_id(entries[i]) # NoMac)
            => hardware_id(entries[i]) # hardware_id(entries[j])

\* C2: after a submission whose validation failed with the library's
\* exception (CannotConnect), the flow is in the same step, its form shows
\* cannot_connect and no exception left the step.
C2_CannotConnectRedisplaysForm ==
    \A f \in FlowIds :
        flows[f].last.kind = "CannotConnect"
            => /\ flows[f].state = flows[f].last.step
               /\ flows[f].errors = "cannot_connect"
               /\ flows[f].raised = "none"

\* C3: after a submission whose validation failed with any other exception,
\* the flow is in the same step, its form shows unknown and no exception
\* left the step.
C3_OtherFailureShowsUnknown ==
    \A f \in FlowIds :
        flows[f].last.kind = "Exception"
            => /\ flows[f].state = flows[f].last.step
               /\ flows[f].errors = "unknown"
               /\ flows[f].raised = "none"

\* C4: a user-step submission with a non-blank host to a reachable device
\* connects to it and ends in created, with a record whose title is the
\* device's friendly name and whose host is the submitted one.
C4_UserHostCreatesEntry ==
    \A f \in FlowIds :
        (/\ flows[f].last.step = "user"
         /\ flows[f].last.host \in Hosts
         /\ flows[f].last.behaviour = "ok")
            => /\ flows[f].last.connected
               /\ flows[f].state = "created"
               /\ \E i \in DOMAIN entries :
                    /\ entries[i].host = flows[f].last.host
                    /\ entries[i].title = friendly_name(flows[f].last.host)

\* C5: a discovery entry whose canonical identifier is the unique id of an
\* existing record aborts with already_configured and adds no record,
\* whatever the other flows are doing; an aborted flow takes no further
\* step.
C5_DiscoveryOfConfiguredAborts ==
    [][\A f \in FlowIds :
        /\ (/\ flows[f].state = "idle"
            /\ flows'[f].last.step = "integration_discovery"
            /\ format_mac(flows'[f].last.mac) \in current_unique_ids)
               => /\ flows'[f].state = "aborted"
                  /\ flows'[f].reason = "already_configured"
                  /\ Len(entries') = Len(entries)
        /\ flows[f].state = "aborted" => flows'[f] = flows[f]]_vars

C5_Witness ==
    \E f, g \in FlowIds :
        /\ flows[f].state = "aborted"
        /\ flows[f].reason = "already_configured"
        /\ flows[f].last.step = "integration_discovery"
        /\ format_mac(flows[f].last.mac) \in current_unique_ids
        /\ flows[g].state \in ActiveStates

\* the step in which flow f enters through integration_discovery for the
\* host another discovery flow g is confirming
RacingDiscovery(f, g) ==
    /\ f # g
    /\ flows[g].state = "discovery_confirm"
    /\ flows[f].state = "idle"
    /\ flows'[f].last.step = "integration_discovery"
    /\ flows'[f].last.host = flows[g].device.host

\* no two flows confirm a discovery of the same host
OneConfirmPerHost ==
    \A f, g \in FlowIds :
        (/\ f # g
         /\ flows[f].state = "discovery_confirm"
         /\ flows[g].state = "discovery_confirm")
            => flows[f].device.host # flows[g].device.host

\* C6 as stated: of two discovery flows in flight for the same host, at
\* most one reaches discovery_confirm and the other aborts with
\* already_in_progress.
C6_RacingDiscoveryAbortsInProgress ==
    [][/\ OneConfirmPerHost'
       /\ \A f, g \in FlowIds :
            RacingDiscovery(f, g)
                => /\ flows'[f].state = "aborted"
                   /\ flows'[f].reason = "already_in_progress"]_vars

\* C6 amended: of two discovery flows in flight for the same host, at most
\* one reaches discovery_confirm; the other aborts, with already_in_progress
\* or, only when an existing record has its identifier or its host, with
\* already_configured.
C6_RacingDiscoveryAborts ==
    [][/\ OneConfirmPerHost'
       /\ \A f, g \in FlowIds :
            RacingDiscovery(f, g)
                => /\ flows'[f].state = "aborted"
                   /\ \/ flows'[f].reason = "already_in_progress"
                      \/ /\ flows'[f].reason = "already_configured"
                         /\ \/ format_mac(flows'[f].last.mac)
                                    \in current_unique_ids
                            \/ async_abort_entries_match(flows'[f].last.host)]_vars

C6_Witness ==
    \E f, g \in FlowIds :
        /\ f # g
        /\ flows[g].state = "discovery_confirm"
        /\ flows[f].state = "aborted"
        /\ flows[f].reason = "already_in_progress"
        /\ flows[f].last.step = "integration_discovery"
        /\ flows[f].last.host = flows[g].device.host
        /\ format_mac(flows[f].last.mac) # flows[g].unique_id

\* C7: when a manual flow submits for the host another manual flow in
\* flight has submitted for, it aborts with already_in_progress.
C7_LaterManualFlowAborts ==
    [][\A f, g \in FlowIds :
        (/\ f # g
         /\ flows[g].state \in ManualSteps
         /\ flows[g].last.host \in Hosts
         /\ flows[f].state \in ManualSteps
         /\ flows'[f] # flows[f]
         /\ flows'[f].last.host = flows[g].last.host)
            => /\ flows'[f].state = "aborted"
               /\ flows'[f].reason = "already_in_progress"]_vars

\* C8: a user-step submission with a blank host enters pick_device: no
\* device connection is attempted and no record is created.
C8_BlankHostEntersPickDevice ==
    [][\A f \in FlowIds :
        (/\ flows[f].state = "user"
         /\ flows'[f] # flows[f]
         /\ flows'[f].last.host = BlankHost)
            => /\ flows'[f].state = "pick_wait"
               /\ ~flows'[f].last.connected
               /\ flows'[f].last.kind = "none"
               /\ entries' = entries]_vars

C8_Witness ==
    \E f \in FlowIds :
        /\ flows[f].state = "pick_wait"
        /\ flows[f].last.step = "user"
        /\ flows[f].last.host = BlankHost
        /\ ~flows[f].last.connected

\* C9: when the discovery pass of pick_device returns, the flow aborts with
\* no_devices_found exactly when every returned device is configured by an
\* existing record (in particular when none is returned); otherwise the
\* form is shown.
C9_NoUnconfiguredCandidateAborts ==
    [][\A f \in FlowIds :
        (/\ flows[f].state = "pick_wait"
         /\ flows'[f].state \in {"pick_device", "aborted"})
            => ((/\ flows'[f].state = "aborted"
                 /\ flows'[f].reason = "no_devices_found")
                <=> \A mac \in DOMAIN flows'[f].devices :
                        is_configured(mac))]_vars

\* C10: a discovery pass of the poller calls the trigger exactly once, with
\* the whole map, when the map it got is not empty, and not at all
\* otherwise.
C10_TriggerIffNonEmpty ==
    /\ lastPass.trigs =
         (IF lastPass.ok /\ DOMAIN lastPass.map # {} THEN 1 ELSE 0)
    /\ lastPass.trigs = 1 => lastPass.arg = lastPass.map
    /\ lastPass.trigs = 0 => lastPass.arg = EmptyMap

C10_Witness ==
    /\ lastPass.src = "interval"
    /\ started
    /\ lastPass.trigs = 1
    /\ Cardinality(DOMAIN lastPass.arg) = 2
    /\ lastPass.arg = lastPass.map

\* C11: a failure of the discovery call is treated like an empty result: in
\* the poller no trigger is called and setup still completes, in
\* pick_device the flow aborts (no_devices_found); it never surfaces as an
\* error.
C11_DiscoveryFailureIsEmptyResult ==
    /\ ~lastPass.ok => (lastPass.trigs = 0 /\ poller # "setup_failed")
    /\ \A f \in FlowIds : flows[f].raised # "DiscoveryError"

\* the step in which flow f enters through integration_discovery
DiscoveryEntry(f) ==
    /\ flows[f].state = "idle"
    /\ flows'[f].last.step = "integration_discovery"

\* C12: with no record and no other flow in progress, a discovery for
\* (host, id) reaches discovery_confirm with the candidate stored, and a
\* confirmation whose validation succeeds ends the flow created, with one
\* new record whose title is the device's friendly name and whose host is
\* the host of the stored candidate.
C12_DiscoveryConfirmCreatesEntry ==
    [][\A f \in FlowIds :
        /\ (/\ DiscoveryEntry(f)
            /\ entries = << >>
            /\ async_in_progress(f) = {})
               => /\ flows'[f].state = "discovery_confirm"
                  /\ flows'[f].device.host = flows'[f].last.host
                  /\ flows'[f].device.mac = flows'[f].last.mac
                  /\ flows'[f].unique_id = format_mac(flows'[f].last.mac)
        /\ (/\ flows[f].state = "discovery_confirm"
            /\ flows'[f] # flows[f]
            /\ flows'[f].last.kind = "ok")
               => /\ flows'[f].state = "created"
                  /\ Len(entries') = Len(entries) + 1
                  /\ SubSeq(entries', 1, Len(entries)) = entries
                  /\ entries'[Len(entries')].host = flows[f].device.host
                  /\ entries'[Len(entries')].title =
                        friendly_name(flows[f].device.host)
                  /\ entries'[Len(entries')].unique_id = flows[f].unique_id]_vars

C12_Witness ==
    \E f \in FlowIds :
        /\ flows[f].state = "created"
        /\ flows[f].last.step = "discovery_confirm"
        /\ flows[f].last.kind = "ok"
        /\ flows[f].last.host \in Hosts
        /\ Len(entries) = 1
        /\ entries[1].host = flows[f].last.host
        /\ entries[1].title = friendly_name(flows[f].last.host)
        /\ entries[1].unique_id # NoMac
        /\ \A g \in FlowIds \ {f} : flows[g].state = "idle"

\* some other flow in progress targets this host
HostInProgress(f, host) ==
    \E g \in async_in_progress(f) : flows[g].ctx_host = host

\* some other flow in progress holds this unique id
UniqueIdInProgress(f, uid) ==
    \E g \in async_in_progress(f) : flows[g].unique_id = uid

\* the candidate of the discovery entry is stored and the confirmation
\* form is shown
CandidateStored(f) ==
    /\ flows'[f].state = "discovery_confirm"
    /\ flows'[f].device.host = flows'[f].last.host
    /\ flows'[f].device.mac = flows'[f].last.mac
    /\ flows'[f].ctx_host = flows'[f].last.host
    /\ entries' = entries

\* C13 as stated: a discovery entry whose canonical identifier matches no
\* record and whose host no other flow in progress targets stores the
\* candidate and reaches discovery_confirm, even when some record stores
\* the same host.
C13_UnmatchedDiscoveryReachesConfirm ==
    [][\A f \in FlowIds :
        (/\ DiscoveryEntry(f)
         /\ format_mac(flows'[f].last.mac) \notin current_unique_ids
         /\ ~HostInProgress(f, flows'[f].last.host))
            => CandidateStored(f)]_vars

\* C13 amended: such a discovery entry stores the candidate and reaches
\* discovery_confirm when, besides, no record stores the same host and no
\* other flow in progress holds the same identifier; when a record stores
\* the same host it aborts with already_configured and changes no record.
C13_UnmatchedDiscoveryConfirmsUnlessHostKnown ==
    [][\A f \in FlowIds :
        (/\ DiscoveryEntry(f)
         /\ format_mac(flows'[f].last.mac) \notin current_unique_ids
         /\ ~HostInProgress(f, flows'[f].last.host)
         /\ ~UniqueIdInProgress(f, format_mac(flows'[f].last.mac)))
            => IF async_abort_entries_match(flows'[f].last.host)
               THEN /\ flows'[f].state = "aborted"
                    /\ flows'[f].reason = "already_configured"
                    /\ entries' = entries
               ELSE CandidateStored(f)]_vars

C13_Witness ==
    \E f \in FlowIds :
        /\ flows[f].state = "aborted"
        /\ flows[f].reason = "already_configured"
        /\ flows[f].last.step = "integration_discovery"
        /\ format_mac(flows[f].last.mac) \notin current_unique_ids
        /\ async_abort_entries_match(flows[f].last.host)
        /\ \A g \in FlowIds \ {f} : flows[g].state # "discovery_confirm"

\* C14: the list the pick_device form shows never contains a candidate
\* some record already refers to, however that record was created
\* (discovery_confirm, user or pick_device).
C14_PickListExcludesConfigured ==
    [][\A f \in FlowIds :
        (/\ flows[f].state = "pick_wait"
         /\ flows'[f].state = "pick_device")
            => \A mac \in flows'[f].offered : ~is_configured(mac)]_vars

\* C15: when a discovery entry aborts with already_configured because its
\* identifier is the unique id of a record, that record stores the newly
\* discovered host afterwards, and no other record and no other field of
\* that record is changed.
C15_ConfiguredAbortUpdatesHostOnly ==
    [][\A f \in FlowIds :
        (/\ DiscoveryEntry(f)
         /\ flows'[f].state = "aborted"
         /\ flows'[f].reason = "already_configured"
         /\ format_mac(flows'[f].last.mac) \in current_unique_ids)
            => /\ DOMAIN entries' = DOMAIN entries
               /\ \A i \in DOMAIN entries :
                    IF entries[i].unique_id = format_mac(flows'[f].last.mac)
                    THEN entries'[i] =
                            [entries[i] EXCEPT !.host = flows'[f].last.host]
                    ELSE entries'[i] = entries[i]]_vars

\* the record was created for another host than the one it stores now
C15_Witness ==
    \E f \in FlowIds, i \in DOMAIN entries :
        /\ flows[f].state = "aborted"
        /\ flows[f].reason = "already_configured"
        /\ flows[f].last.step = "integration_discovery"
        /\ entries[i].unique_id = format_mac(flows[f].last.mac)
        /\ entries[i].host = flows[f].last.host
        /\ entries[i].title # friendly_name(entries[i].host)
        /\ Len(entries) = 2

\* C16: discovery flows racing on a host never all abort: a discovery
\* entry aborts with already_in_progress only because of another flow,
\* which is confirming that host or that identifier and stays so; never
\* because of the host in its own context, and never two flows because of
\* each other.  So whenever a flow was aborted as already in progress for
\* a host no record stores, some flow reached discovery_confirm.
C16_RacingDiscoveryOneConfirms ==
    [][\A f \in FlowIds :
        (/\ DiscoveryEntry(f)
         /\ flows'[f].state = "aborted"
         /\ flows'[f].reason = "already_in_progress")
            => \E g \in FlowIds \ {f} :
                /\ flows[g].state = "discovery_confirm"
                /\ flows'[g] = flows[g]
                /\ flows[g].device # NoDevice
                /\ \/ flows[g].ctx_host = flows'[f].last.host
                   \/ flows[g].unique_id = format_mac(flows'[f].last.mac)]_vars

C16_Witness ==
    \E f, g \in FlowIds :
        /\ f # g
        /\ entries = << >>
        /\ flows[g].state = "discovery_confirm"
        /\ flows[g].ctx_host = flows[g].device.host
        /\ flows[f].state = "aborted"
        /\ flows[f].reason = "already_in_progress"
        /\ flows[f].last.step = "integration_discovery"
        /\ flows[f].last.host = flows[g].ctx_host

\* C17: whenever discovery_confirm runs, for the form or for a submission,
\* the flow holds the discovered device stored at the discovery entry: the
\* assertion of line 122 never fails and the candidate is never cleared.
C17_ConfirmHoldsDiscoveredDevice ==
    \A f \in FlowIds :
        /\ flows[f].state = "discovery_confirm"
              => /\ flows[f].device # NoDevice
                 /\ flows[f].device.host = flows[f].ctx_host
                 /\ format_mac(flows[f].device.mac) = flows[f].unique_id
                 /\ flows[f].last.step \in
                        {"integration_discovery", "discovery_confirm"}
                 /\ flows[f].last.step = "discovery_confirm"
                        => flows[f].last.host = flows[f].device.host
        /\ flows[f].raised # "AssertionError"

\* a submission failed and the form is still held with the candidate
C17_Witness ==
    \E f \in FlowIds :
        /\ flows[f].state = "discovery_confirm"
        /\ flows[f].last.step = "discovery_confirm"
        /\ flows[f].raised = "CannotConnect"
        /\ flows[f].device.host \in Hosts

\* the form of pick_device offers keys of the map the flow captured
OfferedAreCaptured ==
    \A f \in FlowIds :
        flows[f].state = "pick_device"
            => /\ flows[f].offered # {}
               /\ flows[f].offered \subseteq DOMAIN flows[f].devices

\* C18: every pick_device submission selects a key of the candidate map
\* the same flow captured when it displayed the form, so the lookup never
\* fails, and the host validated and written into the record is the host
\* of that captured candidate, across resubmissions and whatever the other
\* flows discover in between.
C18_PickSubmitUsesCapturedCandidate ==
    [][/\ OfferedAreCaptured'
       /\ \A f \in FlowIds :
            /\ flows'[f].raised # "KeyError"
            /\ (/\ flows[f].state = "pick_device"
                /\ flows'[f] # flows[f])
                   => /\ flows'[f].last.step = "pick_device"
                      /\ flows'[f].last.mac \in DOMAIN flows[f].devices
                      /\ flows'[f].last.host =
                            flows[f].devices[flows'[f].last.mac]
                      /\ IF flows'[f].last.kind = "ok"
                         THEN /\ flows'[f].state = "created"
                              /\ Len(entries') = Len(entries) + 1
                              /\ entries'[Len(entries')].host =
                                    flows[f].devices[flows'[f].last.mac]
                              /\ entries'[Len(entries')].device =
                                    flows'[f].last.mac
                         ELSE /\ flows'[f].state = "pick_device"
                              /\ flows'[f].devices = flows[f].devices
                              /\ flows'[f].offered = flows[f].offered
                              /\ entries' = entries]_vars

\* a flow resubmits its form, with two candidates at different hosts
\* captured, while another flow holds a different map
C18_Witness ==
    \E f, g \in FlowIds :
        /\ flows[f].state = "pick_device"
        /\ flows[f].last.step = "pick_device"
        /\ flows[f].raised = "CannotConnect"
        /\ flows[f].last.host = flows[f].devices[flows[f].last.mac]
        /\ \E k \in DOMAIN flows[f].devices :
                flows[f].devices[k] # flows[f].last.host
        /\ flows[g].state = "pick_device"
        /\ flows[g].devices # flows[f].devices

====
